---- MODULE Spec2Model ----
(***************************************************************************)
(* Block construction, genesis bootstrap, verification and the two codecs  *)
(* of vm/ledger/block/mod.rs.                                              *)
(*                                                                         *)
(* Header, Transactions, the network hash and the VM are collaborators of  *)
(* the block module: they are modelled by their interface only.            *)
(***************************************************************************)
EXTENDS Integers, Sequences, FiniteSets, TLC

(* ---- bounds of the model ---- *)
MaxPrev == 1
MaxHeight == 1
NumTx == 2
MaxTxs == 2
MaxBit == 3

(* ---- collaborators: hash output, header, transaction set ---- *)

\* N::BlockHash::default()
Zero == 0

PrevHashes == 0..MaxPrev
TxIds == 1..NumTx

\* A header as the block module sees it: height(), is_genesis(), is_valid()
\* and whether to_root() fails.
Headers == [height : 0..MaxHeight, genesis : BOOLEAN, valid : BOOLEAN, rootFails : BOOLEAN]

SeqsUpTo(S, n) == UNION {[1..k -> S] : k \in 0..n}
\* Transactions are keyed by their id: a set holds no transaction twice.
TransactionSets ==
    {t \in SeqsUpTo(TxIds, MaxTxs) : \A i, j \in 1..Len(t) : t[i] = t[j] => i = j}

\* The part of a header besides its height, as one number (bit 0 genesis,
\* bit 1 valid, bit 2 rootFails).
HeaderFlags(h) ==
    (IF h.genesis THEN 1 ELSE 0) + (IF h.valid THEN 2 ELSE 0) + (IF h.rootFails THEN 4 ELSE 0)

Ok(v) == [ok |-> TRUE, err |-> "", val |-> v]
Err(e, none) == [ok |-> FALSE, err |-> e, val |-> none]

\* header.to_root(): a commitment to every field of the header (distinct
\* headers have distinct roots), or an error.
HeaderToRoot(h) ==
    IF h.rootFails THEN Err("HeaderRootError", -1)
    ELSE Ok(h.height * 8 + HeaderFlags(h))

\* Inputs the hash function of the network rejects.
HashRejects(p, r) == p = MaxPrev /\ r = 8 * MaxHeight + 2

\* N::hash_bhp1024 over the concatenated bits of p and r: deterministic and
\* collision free (a pairing of the two numbers), or an error.
HashBhp1024(p, r) ==
    IF HashRejects(p, r) THEN Err("HashError", -1)
    ELSE Ok(((p + r) * (p + r + 1)) \div 2 + r + 1)

TransactionsIsEmpty(t) == Len(t) = 0
TransactionsLen(t) == Len(t)
\* Transactions::from(&[..]): the set of the given transactions, in order.
TransactionsFrom(list) == list

\* Header::genesis()
HeaderGenesis == [height |-> 0, genesis |-> TRUE, valid |-> TRUE, rootFails |-> FALSE]

(* ---- Block ---- *)

MkBlock(bh, ph, h, t) ==
    [block_hash |-> bh, previous_hash |-> ph, header |-> h, transactions |-> t]

NoHeader == [height |-> -1, genesis |-> FALSE, valid |-> FALSE, rootFails |-> FALSE]
NoBlock == MkBlock(-1, -1, NoHeader, <<>>)

EmptyTransactionSet == "Cannot create block with no transactions"
UnsupportedVersion == "Invalid block version"
CorruptionError == "Mismatching block hash, possible data corruption"
GenesisInvariantViolation == "Failed to initialize a genesis block"

\* Block::from with the header root computed before the emptiness check.
FromRootFirst(previous_hash, header, transactions) ==
    LET root == HeaderToRoot(header) IN
    IF ~root.ok THEN Err(root.err, NoBlock)
    ELSE IF TransactionsIsEmpty(transactions) THEN Err(EmptyTransactionSet, NoBlock)
    ELSE LET hash == HashBhp1024(previous_hash, root.val) IN
         IF ~hash.ok THEN Err(hash.err, NoBlock)
         ELSE Ok(MkBlock(hash.val, previous_hash, header, transactions))

\* Block::from
From(previous_hash, header, transactions) ==
    IF TransactionsIsEmpty(transactions) THEN Err(EmptyTransactionSet, NoBlock)
    ELSE LET root == HeaderToRoot(header) IN
         IF ~root.ok THEN Err(root.err, NoBlock)
         ELSE LET hash == HashBhp1024(previous_hash, root.val) IN
              IF ~hash.ok THEN Err(hash.err, NoBlock)
              ELSE Ok(MkBlock(hash.val, previous_hash, header, transactions))

\* Block::is_genesis without the transaction count.
IsGenesisAnyCount(b) ==
    /\ b.previous_hash = Zero
    /\ b.header.genesis

\* Block::is_genesis
IsGenesis(b) ==
    /\ b.previous_hash = Zero
    /\ b.header.genesis
    /\ TransactionsLen(b.transactions) = 1

(* ---- binary codec ---- *)

\* Fixed-width little-endian encoding of a hash output (two bytes).
HashWriteLe(x) == <<x % 256, x \div 256>>
HashReadLe(bytes) == bytes[1] + 256 * bytes[2]

\* The header's own binary encoding: a height byte and a flags byte.
HeaderWriteLe(h) == <<h.height, HeaderFlags(h)>>
HeaderMalformed(bytes) == bytes[2] >= 8
HeaderReadLe(bytes) ==
    [height |-> bytes[1],
     genesis |-> bytes[2] % 2 = 1,
     valid |-> (bytes[2] \div 2) % 2 = 1,
     rootFails |-> (bytes[2] \div 4) % 2 = 1]

\* The transaction set's own binary encoding: a count byte, then one byte per
\* transaction.
TransactionsWriteLe(t) == <<Len(t)>> \o t

\* bytes[from..to] of a buffer.
Slice(bytes, from, to) == [i \in 1..(to - from + 1) |-> bytes[from + i - 1]]

ReadResult(res, consumed) == [res |-> res, consumed |-> consumed]

\* write_le with the two hashes written in the other order.
WriteLeSwapped(b) ==
    <<0, 0>>
    \o HashWriteLe(b.previous_hash)
    \o HashWriteLe(b.block_hash)
    \o HeaderWriteLe(b.header)
    \o TransactionsWriteLe(b.transactions)

\* ToBytes for Block::write_le
WriteLe(b) ==
    <<0, 0>>
    \o HashWriteLe(b.block_hash)
    \o HashWriteLe(b.previous_hash)
    \o HeaderWriteLe(b.header)
    \o TransactionsWriteLe(b.transactions)

\* A decoder that keeps the hash it read instead of comparing it.
EnsureHashTrusted(block_hash, made) ==
    IF ~made.ok THEN made
    ELSE Ok([made.val EXCEPT !.block_hash = block_hash])

\* A decoder that returns the reconstructed block without the comparison.
EnsureHashUnchecked(block_hash, made) == made

\* The check that ends both decoders: the hash read against the hash of the
\* reconstructed block.
EnsureHashMatches(block_hash, made) ==
    IF ~made.ok THEN made
    ELSE IF block_hash = made.val.block_hash THEN Ok(made.val)
    ELSE Err(CorruptionError, NoBlock)

\* A gate that looks at the low byte of the version only.
VersionLowByteOnly(version) == version % 256 = 0

\* The gate on the version read by read_le.
VersionIsValid(version) == version = 0

\* FromBytes for Block::read_le; consumed is the number of bytes taken from
\* the reader when it returns.
ReadLe(bytes) ==
    LET n == Len(bytes) IN
    IF n < 2 THEN ReadResult(Err("UnexpectedEof", NoBlock), n)
    ELSE LET version == bytes[1] + 256 * bytes[2] IN
    IF ~VersionIsValid(version) THEN ReadResult(Err(UnsupportedVersion, NoBlock), 2)
    ELSE IF n < 4 THEN ReadResult(Err("UnexpectedEof", NoBlock), n)
    ELSE LET block_hash == HashReadLe(Slice(bytes, 3, 4)) IN
    IF n < 6 THEN ReadResult(Err("UnexpectedEof", NoBlock), n)
    ELSE LET previous_hash == HashReadLe(Slice(bytes, 5, 6)) IN
    IF n < 8 THEN ReadResult(Err("UnexpectedEof", NoBlock), n)
    ELSE IF HeaderMalformed(Slice(bytes, 7, 8)) THEN ReadResult(Err("InvalidHeader", NoBlock), 8)
    ELSE LET header == HeaderReadLe(Slice(bytes, 7, 8)) IN
    IF n < 9 THEN ReadResult(Err("UnexpectedEof", NoBlock), n)
    ELSE LET count == bytes[9] IN
    IF n < 9 + count THEN ReadResult(Err("UnexpectedEof", NoBlock), n)
    ELSE LET transactions == Slice(bytes, 10, 9 + count) IN
         ReadResult(EnsureHashMatches(block_hash, From(previous_hash, header, transactions)),
                    9 + count)

\* One bit of a byte inverted.
FlipBit(byte, k) ==
    IF (byte \div (2 ^ k)) % 2 = 1 THEN byte - 2 ^ k ELSE byte + 2 ^ k

(* ---- structured-text codec ---- *)

RECURSIVE Digits(_)
\* The decimal rendering of a number, most significant digit first.
Digits(n) == IF n < 10 THEN <<n>> ELSE Append(Digits(n \div 10), n % 10)

RECURSIVE FromDigits(_)
FromDigits(ds) ==
    IF Len(ds) = 0 THEN 0
    ELSE 10 * FromDigits(SubSeq(ds, 1, Len(ds) - 1)) + ds[Len(ds)]

\* serde_json::Value::Null, also what indexing a missing key yields.
Null == [t |-> "null", v |-> <<>>]

\* A hash output renders as a string; a header as an object; a transaction
\* set as an array.
HashToText(x) == [t |-> "string", v |-> Digits(x)]
HashFromText(j) ==
    IF j.t = "string" /\ Len(j.v) > 0 THEN Ok(FromDigits(j.v)) ELSE Err("InvalidHash", -1)

HeaderToText(h) == [t |-> "object", v |-> HeaderWriteLe(h)]
HeaderFromText(j) ==
    IF j.t = "object" /\ ~HeaderMalformed(j.v) THEN Ok(HeaderReadLe(j.v))
    ELSE Err("InvalidHeader", NoHeader)

TransactionsToText(t) == [t |-> "array", v |-> t]
TransactionsFromText(j) ==
    IF j.t = "array" THEN Ok(j.v) ELSE Err("InvalidTransactions", <<>>)

\* Serialize for Block::serialize, human-readable branch.
Serialize(b) ==
    [block_hash |-> HashToText(b.block_hash),
     previous_hash |-> HashToText(b.previous_hash),
     header |-> HeaderToText(b.header),
     transactions |-> TransactionsToText(b.transactions)]

\* Deserialize for Block::deserialize, human-readable branch.
Deserialize(d) ==
    LET block_hash == HashFromText(d.block_hash) IN
    IF ~block_hash.ok THEN Err(block_hash.err, NoBlock)
    ELSE LET previous_hash == HashFromText(d.previous_hash) IN
    IF ~previous_hash.ok THEN Err(previous_hash.err, NoBlock)
    ELSE LET header == HeaderFromText(d.header) IN
    IF ~header.ok THEN Err(header.err, NoBlock)
    ELSE LET transactions == TransactionsFromText(d.transactions) IN
    IF ~transactions.ok THEN Err(transactions.err, NoBlock)
    ELSE EnsureHashMatches(block_hash.val,
                           From(previous_hash.val, header.val, transactions.val))

(* ---- verifier ---- *)

Verdict(res, steps) == [res |-> res, steps |-> steps]

\* Block::verify without the comparison of the candidate hash.
VerifyNoHashCheck(b, vmOk) ==
    IF b.header.height = 0 /\ ~IsGenesis(b) THEN Verdict(FALSE, <<"genesis">>)
    ELSE IF ~b.header.valid THEN Verdict(FALSE, <<"genesis", "header">>)
    ELSE LET header_root == HeaderToRoot(b.header) IN
    IF ~header_root.ok THEN Verdict(FALSE, <<"genesis", "header", "root">>)
    ELSE LET candidate_hash == HashBhp1024(b.previous_hash, header_root.val) IN
    IF ~candidate_hash.ok THEN Verdict(FALSE, <<"genesis", "header", "root", "hash">>)
    ELSE IF ~vmOk THEN Verdict(FALSE, <<"genesis", "header", "root", "hash", "transactions">>)
    ELSE Verdict(TRUE, <<"genesis", "header", "root", "hash", "transactions">>)

\* Block::verify with the transactions verified before the block hash.
VerifyVmFirst(b, vmOk) ==
    IF b.header.height = 0 /\ ~IsGenesis(b) THEN Verdict(FALSE, <<"genesis">>)
    ELSE IF ~b.header.valid THEN Verdict(FALSE, <<"genesis", "header">>)
    ELSE LET header_root == HeaderToRoot(b.header) IN
    IF ~header_root.ok THEN Verdict(FALSE, <<"genesis", "header", "root">>)
    ELSE IF ~vmOk THEN Verdict(FALSE, <<"genesis", "header", "root", "transactions">>)
    ELSE LET candidate_hash == HashBhp1024(b.previous_hash, header_root.val) IN
    IF ~candidate_hash.ok
    THEN Verdict(FALSE, <<"genesis", "header", "root", "transactions", "hash">>)
    ELSE IF candidate_hash.val # b.block_hash
         THEN Verdict(FALSE, <<"genesis", "header", "root", "transactions", "hash">>)
    ELSE Verdict(TRUE, <<"genesis", "header", "root", "transactions", "hash">>)

\* Block::verify. vmOk is what transactions.verify(vm) answers; steps lists
\* the checks evaluated, in order.
Verify(b, vmOk) ==
    IF b.header.height = 0 /\ ~IsGenesis(b) THEN Verdict(FALSE, <<"genesis">>)
    ELSE IF ~b.header.valid THEN Verdict(FALSE, <<"genesis", "header">>)
    ELSE LET header_root == HeaderToRoot(b.header) IN
    IF ~header_root.ok THEN Verdict(FALSE, <<"genesis", "header", "root">>)
    ELSE LET candidate_hash == HashBhp1024(b.previous_hash, header_root.val) IN
    IF ~candidate_hash.ok THEN Verdict(FALSE, <<"genesis", "header", "root", "hash">>)
    ELSE IF candidate_hash.val # b.block_hash
         THEN Verdict(FALSE, <<"genesis", "header", "root", "hash">>)
    ELSE IF ~vmOk THEN Verdict(FALSE, <<"genesis", "header", "root", "hash", "transactions">>)
    ELSE Verdict(TRUE, <<"genesis", "header", "root", "hash", "transactions">>)

VARIABLES blk, wire, doc, tampered, last, gpc, calls, gdeploy, gexec, gres

vars == <<blk, wire, doc, tampered, last, gpc, calls, gdeploy, gexec, gres>>

NoDoc == [block_hash |-> Null, previous_hash |-> Null, header |-> Null, transactions |-> Null]

\* The most recent operation: its name, the block or inputs it was given, what
\* it returned, and for a decoder the bytes or document it read.
MkLast(op, arg, res, verdict, steps, consumed, vmOk, bytes, text) ==
    [op |-> op, arg |-> arg, res |-> res, verdict |-> verdict, steps |-> steps,
     consumed |-> consumed, vmOk |-> vmOk, bytes |-> bytes, text |-> text]

NoLast == MkLast("none", NoBlock, Err("", NoBlock), FALSE, <<>>, 0, FALSE, <<>>, NoDoc)

Init ==
    /\ blk = NoBlock
    /\ wire = <<>>
    /\ doc = NoDoc
    /\ tampered = FALSE
    /\ last = NoLast
    /\ gpc = "idle"
    /\ calls = <<>>
    /\ gdeploy = 0
    /\ gexec = 0
    /\ gres = Err("", NoBlock)

\* A caller builds a block from a previous hash, a header and transactions.
Construct(p, h, t) ==
    /\ gpc = "idle"
    /\ last = NoLast
    /\ LET r == From(p, h, t) IN
       /\ blk' = r.val
       /\ last' = MkLast("from", MkBlock(-1, p, h, t), r, FALSE, <<>>, 0, FALSE, <<>>, NoDoc)
    /\ wire' = <<>>
    /\ doc' = NoDoc
    /\ tampered' = FALSE
    /\ UNCHANGED <<gpc, calls, gdeploy, gexec, gres>>

\* The owner lets the block, its encodings and the last result go out of scope.
Drop ==
    /\ gpc = "idle"
    /\ last # NoLast
    /\ blk' = NoBlock
    /\ wire' = <<>>
    /\ doc' = NoDoc
    /\ tampered' = FALSE
    /\ last' = NoLast
    /\ UNCHANGED <<gpc, calls, gdeploy, gexec, gres>>

\* The block is written to the binary channel.
EncodeBinary ==
    /\ gpc = "idle"
    /\ blk # NoBlock
    /\ wire' = WriteLe(blk)
    /\ doc' = NoDoc
    /\ tampered' = FALSE
    /\ last' = MkLast("write_le", blk, Ok(blk), FALSE, <<>>, 0, FALSE, <<>>, NoDoc)
    /\ UNCHANGED <<blk, gpc, calls, gdeploy, gexec, gres>>

\* One bit of the encoded bytes is flipped in transit.
TamperBinary(i, k) ==
    /\ gpc = "idle"
    /\ ~tampered
    /\ i \in 1..Len(wire)
    /\ wire' = [wire EXCEPT ![i] = FlipBit(@, k)]
    /\ tampered' = TRUE
    /\ UNCHANGED <<blk, doc, last, gpc, calls, gdeploy, gexec, gres>>

\* The bytes are cut short in transit.
TruncateBinary(n) ==
    /\ gpc = "idle"
    /\ ~tampered
    /\ n < Len(wire)
    /\ wire' = SubSeq(wire, 1, n)
    /\ tampered' = TRUE
    /\ UNCHANGED <<blk, doc, last, gpc, calls, gdeploy, gexec, gres>>

\* The bytes on the binary channel are decoded.
DecodeBinary ==
    /\ gpc = "idle"
    /\ wire # <<>>
    /\ LET r == ReadLe(wire) IN
       last' = MkLast("read_le", blk, r.res, FALSE, <<>>, r.consumed, FALSE, wire, NoDoc)
    /\ UNCHANGED <<blk, wire, doc, tampered, gpc, calls, gdeploy, gexec, gres>>

\* The block is written to the structured-text channel.
EncodeText ==
    /\ gpc = "idle"
    /\ blk # NoBlock
    /\ doc' = Serialize(blk)
    /\ wire' = <<>>
    /\ tampered' = FALSE
    /\ last' = MkLast("serialize", blk, Ok(blk), FALSE, <<>>, 0, FALSE, <<>>, NoDoc)
    /\ UNCHANGED <<blk, gpc, calls, gdeploy, gexec, gres>>

\* The values one field of a document can be changed to.
TextValues(f) ==
    {Null} \cup
    (CASE f = "header" -> {HeaderToText(h) : h \in Headers}
       [] f = "transactions" -> {TransactionsToText(t) : t \in TransactionSets}
       [] OTHER -> {HashToText(x) : x \in PrevHashes \cup {blk.block_hash + 1}})

\* One field of the document is changed (or removed) in transit.
TamperText(f, j) ==
    /\ gpc = "idle"
    /\ doc # NoDoc
    /\ ~tampered
    /\ j \in TextValues(f)
    /\ j # doc[f]
    /\ doc' = [doc EXCEPT ![f] = j]
    /\ tampered' = TRUE
    /\ UNCHANGED <<blk, wire, last, gpc, calls, gdeploy, gexec, gres>>

\* The document on the structured-text channel is decoded.
DecodeText ==
    /\ gpc = "idle"
    /\ doc # NoDoc
    /\ last' = MkLast("deserialize", blk, Deserialize(doc), FALSE, <<>>, 0, FALSE, <<>>, doc)
    /\ UNCHANGED <<blk, wire, doc, tampered, gpc, calls, gdeploy, gexec, gres>>

\* The block values is_valid is asked about: the block itself, and the block
\* with its previous hash, its stored hash or its header's root replaced.
Candidates(b) ==
    {b} \cup {[b EXCEPT !.previous_hash = p] : p \in PrevHashes}
        \cup {[b EXCEPT !.block_hash = b.block_hash + 1]}
        \cup {[b EXCEPT !.header.rootFails = TRUE]}

\* A caller verifies a block against a VM.
VerifyBlock(c, vmOk) ==
    /\ gpc = "idle"
    /\ blk # NoBlock
    /\ wire = <<>> /\ doc = NoDoc
    /\ c \in Candidates(blk)
    /\ LET v == Verify(c, vmOk) IN
       last' = MkLast("verify", c, Ok(blk), v.res, v.steps, 0, vmOk, <<>>, NoDoc)
    /\ UNCHANGED <<blk, wire, doc, tampered, gpc, calls, gdeploy, gexec, gres>>

(* ---- genesis bootstrap: Block::genesis, one action per VM call ---- *)

Call(fn, ok) == [fn |-> fn, ok |-> ok]

\* A protocol that goes on after a failed VM call.
AfterCallIgnoreFailure(ok, next) == next

\* The `?` after a VM call: on success the protocol goes on to `next`, on
\* failure it returns.
AfterCall(ok, next) == IF ok THEN next ELSE "done"

\* What genesis returns when the VM call `fn` fails: that call's error.
CallError(fn) == Err(fn, NoBlock)

\* genesis is entered on a fresh ledger; Program::genesis() is a fixed program.
GenesisStart ==
    /\ gpc = "idle"
    /\ blk = NoBlock
    /\ last = NoLast
    /\ gpc' = "deploy"
    /\ calls' = <<>>
    /\ gres' = Err("", NoBlock)
    /\ gdeploy' = 0
    /\ gexec' = 0
    /\ UNCHANGED <<blk, wire, doc, tampered, last>>

\* vm.deploy(&genesis, rng)?
GenesisDeploy(ok, tx) ==
    /\ gpc = "deploy"
    /\ calls' = Append(calls, Call("deploy", ok))
    /\ gpc' = AfterCall(ok, "on_deploy")
    /\ gdeploy' = IF ok THEN tx ELSE gdeploy
    /\ gres' = IF ok THEN gres ELSE CallError("deploy")
    /\ UNCHANGED <<blk, wire, doc, tampered, last, gexec>>

\* vm.on_deploy(&deploy)?
GenesisOnDeploy(ok) ==
    /\ gpc = "on_deploy"
    /\ calls' = Append(calls, Call("on_deploy", ok))
    /\ gpc' = AfterCall(ok, "authorize")
    /\ gres' = IF ok THEN gres ELSE CallError("on_deploy")
    /\ UNCHANGED <<blk, wire, doc, tampered, last, gdeploy, gexec>>

\* vm.authorize(private_key, genesis.id(), "start", &inputs, rng)?
GenesisAuthorize(ok) ==
    /\ gpc = "authorize"
    /\ calls' = Append(calls, Call("authorize", ok))
    /\ gpc' = AfterCall(ok, "execute")
    /\ gres' = IF ok THEN gres ELSE CallError("authorize")
    /\ UNCHANGED <<blk, wire, doc, tampered, last, gdeploy, gexec>>

\* vm.execute(authorization, rng)?
GenesisExecute(ok, tx) ==
    /\ gpc = "execute"
    /\ tx # gdeploy
    /\ calls' = Append(calls, Call("execute", ok))
    /\ gpc' = AfterCall(ok, "construct")
    /\ gexec' = IF ok THEN tx ELSE gexec
    /\ gres' = IF ok THEN gres ELSE CallError("execute")
    /\ UNCHANGED <<blk, wire, doc, tampered, last, gdeploy>>

\* The block genesis builds and what it returns after the self-check.
GenesisBlock(deploy, execution) ==
    LET header == HeaderGenesis
        transactions == TransactionsFrom(<<deploy, execution>>)
        previous_hash == Zero
        block == From(previous_hash, header, transactions)
    IN  IF ~block.ok THEN block
        ELSE IF IsGenesis(block.val) THEN Ok(block.val)
        ELSE Err(GenesisInvariantViolation, NoBlock)

\* Header::genesis(), Transactions::from, Self::from and the is_genesis check.
GenesisConstruct ==
    /\ gpc = "construct"
    /\ gres' = GenesisBlock(gdeploy, gexec)
    /\ gpc' = "done"
    /\ UNCHANGED <<blk, wire, doc, tampered, last, calls, gdeploy, gexec>>

\* genesis returns to its caller.
GenesisReturn ==
    /\ gpc = "done"
    /\ gpc' = "idle"
    /\ blk' = gres.val
    /\ last' = MkLast("genesis", NoBlock, gres, FALSE, <<>>, 0, FALSE, <<>>, NoDoc)
    /\ calls' = <<>>
    /\ gdeploy' = 0
    /\ gexec' = 0
    /\ gres' = Err("", NoBlock)
    /\ UNCHANGED <<wire, doc, tampered>>

Next ==
    \/ \E p \in PrevHashes, h \in Headers, t \in TransactionSets : Construct(p, h, t)
    \/ Drop
    \/ EncodeBinary
    \/ \E i \in 1..(9 + MaxTxs), k \in 0..MaxBit : TamperBinary(i, k)
    \/ \E n \in 0..(9 + MaxTxs) : TruncateBinary(n)
    \/ DecodeBinary
    \/ EncodeText
    \/ \E f \in {"block_hash", "previous_hash", "header", "transactions"} :
          \E j \in TextValues(f) : TamperText(f, j)
    \/ DecodeText
    \/ \E c \in Candidates(blk), vmOk \in BOOLEAN : VerifyBlock(c, vmOk)
    \/ GenesisStart
    \/ \E ok \in BOOLEAN, tx \in TxIds : GenesisDeploy(ok, tx)
    \/ \E ok \in BOOLEAN : GenesisOnDeploy(ok)
    \/ \E ok \in BOOLEAN : GenesisAuthorize(ok)
    \/ \E ok \in BOOLEAN, tx \in TxIds : GenesisExecute(ok, tx)
    \/ GenesisConstruct
    \/ GenesisReturn

Spec == Init /\ [][Next]_vars

(* ======================= properties ======================= *)

\* The operations that hand a Block to their caller.
Producers == {"from", "genesis", "read_le", "deserialize"}
Produced == last.op \in Producers /\ last.res.ok

\* block_hash is the hash of previous_hash and the header root.
HashConsistent(b) ==
    LET root == HeaderToRoot(b.header) IN
    /\ root.ok
    /\ LET hash == HashBhp1024(b.previous_hash, root.val) IN
       hash.ok /\ hash.val = b.block_hash

AllCallsOk == Len(calls) = 4 /\ \A i \in 1..4 : calls[i].ok

\* C1: every Block returned by construct, genesis or a decoder stores the
\* hash of its previous hash and header root.
C1_HashConsistency ==
    /\ Produced => HashConsistent(last.res.val)
    /\ blk # NoBlock => HashConsistent(blk)
    /\ (gpc = "done" /\ gres.ok) => HashConsistent(gres.val)

\* A decoder returned a block read from bytes changed in transit.
C1_Witness ==
    /\ last.op = "read_le" /\ last.res.ok
    /\ last.bytes # WriteLe(last.arg)

\* C2: when deploy, on_deploy, authorize and execute all succeed, genesis
\* returns a genesis block with zero previous hash, one transaction, height 0.
C2_GenesisYieldsGenesisBlock ==
    (gpc = "done" /\ AllCallsOk) =>
        /\ gres.ok
        /\ IsGenesis(gres.val)
        /\ gres.val.previous_hash = Zero
        /\ TransactionsLen(gres.val.transactions) = 1
        /\ gres.val.header.height = 0

HeightZeroShape(b) ==
    b.header.height = 0 =>
        /\ b.previous_hash = Zero
        /\ b.header.genesis
        /\ Len(b.transactions) = 1

\* C3 as stated: every Block returned by construct, genesis or a decoder
\* that has height 0 has zero previous hash, a genesis header and one
\* transaction.
C3_HeightZeroOfEveryBlock == Produced => HeightZeroShape(last.res.val)

\* C3 amended: every block is_valid accepts, and every block genesis returns,
\* has at height 0 zero previous hash, a genesis header and one transaction.
C3_HeightZeroOfVerified ==
    /\ (last.op = "verify" /\ last.verdict) => HeightZeroShape(last.arg)
    /\ (gpc = "done" /\ gres.ok) => HeightZeroShape(gres.val)

\* is_valid accepted a block of height 0.
C3_Witness ==
    /\ last.op = "verify" /\ last.verdict
    /\ last.arg.header.height = 0

\* C4: a block obtained from construct or genesis, encoded and decoded in the
\* same format with nothing changed in between, comes back equal in all four
\* fields.
C4_RoundTrip ==
    /\ (last.op = "read_le" /\ last.bytes = WriteLe(last.arg)) =>
          (last.res.ok /\ last.res.val = last.arg)
    /\ (last.op = "deserialize" /\ last.text = Serialize(last.arg)) =>
          (last.res.ok /\ last.res.val = last.arg)

\* A block of two transactions went through the binary format unchanged.
C4_Witness ==
    /\ last.op = "read_le" /\ ~tampered /\ wire = last.bytes
    /\ last.res.ok /\ last.res.val = blk
    /\ Len(blk.transactions) = 2

\* The field a byte of the binary encoding belongs to.
FieldOf(i) ==
    IF i <= 2 THEN "version"
    ELSE IF i <= 4 THEN "block_hash"
    ELSE IF i <= 6 THEN "previous_hash"
    ELSE IF i <= 8 THEN "header"
    ELSE "transactions"

\* The fields in which the bytes decoded differ from the encoding of the block.
BytesChanged ==
    {FieldOf(i) : i \in {k \in 1..Len(last.bytes) : last.bytes[k] # WriteLe(last.arg)[k]}}

BinaryCase(f) ==
    /\ last.op = "read_le"
    /\ Len(last.bytes) = Len(WriteLe(last.arg))
    /\ BytesChanged = {f}

BinaryHeader == HeaderReadLe(Slice(last.bytes, 7, 8))
BinaryTransactions == Slice(last.bytes, 10, 9 + last.bytes[9])

BinaryHeaderCase ==
    BinaryCase("header") /\ ~HeaderMalformed(Slice(last.bytes, 7, 8))
BinaryTransactionsCase ==
    BinaryCase("transactions") /\ 9 + last.bytes[9] <= Len(last.bytes)

TextFields == {"block_hash", "previous_hash", "header", "transactions"}
TextChanged == {f \in TextFields : last.text[f] # Serialize(last.arg)[f]}

TextCase(f) == last.op = "deserialize" /\ TextChanged = {f}

TextHashCase == TextCase("block_hash") /\ HashFromText(last.text.block_hash).ok
TextHeaderCase == TextCase("header") /\ HeaderFromText(last.text.header).ok
TextTransactionsCase ==
    TextCase("transactions") /\ TransactionsFromText(last.text.transactions).ok

Corruption == ~last.res.ok /\ last.res.err = CorruptionError

\* C5 as stated: a changed stored hash, or a header or transactions payload
\* changed to another decodable value, makes either decoder fail with
\* CorruptionError.
C5_EveryChangeDetected ==
    (\/ BinaryCase("block_hash") \/ BinaryHeaderCase \/ BinaryTransactionsCase
     \/ TextHashCase \/ TextHeaderCase \/ TextTransactionsCase) => Corruption

\* What a decoder answers to a header payload changed to the header h.
HeaderChangeOutcome(h) ==
    LET root == HeaderToRoot(h) IN
    IF ~root.ok THEN ~last.res.ok /\ last.res.err = root.err
    ELSE LET hash == HashBhp1024(last.arg.previous_hash, root.val) IN
         IF ~hash.ok THEN ~last.res.ok /\ last.res.err = hash.err
         ELSE Corruption

\* What a decoder answers to a transactions payload changed to t.
TransactionsChangeOutcome(t) ==
    IF Len(t) = 0 THEN ~last.res.ok /\ last.res.err = EmptyTransactionSet
    ELSE last.res = Ok([last.arg EXCEPT !.transactions = t])

\* C5 amended: a changed stored hash fails with CorruptionError; a changed
\* header fails with CorruptionError when its root and block hash can be
\* computed and with the construction error otherwise; a changed transactions
\* payload is not detected (the block comes back with the changed
\* transactions, or EmptyTransactionSet when none are left).
C5_CorruptionDetection ==
    /\ (BinaryCase("block_hash") \/ TextHashCase) => Corruption
    /\ BinaryHeaderCase => HeaderChangeOutcome(BinaryHeader)
    /\ TextHeaderCase => HeaderChangeOutcome(HeaderFromText(last.text.header).val)
    /\ BinaryTransactionsCase => TransactionsChangeOutcome(BinaryTransactions)
    /\ TextTransactionsCase =>
          TransactionsChangeOutcome(TransactionsFromText(last.text.transactions).val)

\* The binary decoder met a changed stored hash and reported corruption.
C5_Witness == BinaryCase("block_hash") /\ Corruption

\* C6: construct with no transactions fails with EmptyTransactionSet whatever
\* the previous hash and header, and no block any operation returns is empty.
C6_NonEmpty ==
    /\ (last.op = "from" /\ TransactionsIsEmpty(last.arg.transactions)) =>
          (~last.res.ok /\ last.res.err = EmptyTransactionSet /\ blk = NoBlock)
    /\ Produced => Len(last.res.val.transactions) > 0
    /\ blk # NoBlock => Len(blk.transactions) > 0

\* construct was given no transactions and a header whose root fails.
C6_Witness ==
    /\ last.op = "from"
    /\ TransactionsIsEmpty(last.arg.transactions)
    /\ last.arg.header.rootFails
    /\ last.res.err = EmptyTransactionSet

\* is_valid was asked about the block with only its previous hash replaced.
PreviousHashReplaced ==
    /\ last.op = "verify"
    /\ last.arg.previous_hash # blk.previous_hash
    /\ last.arg = [blk EXCEPT !.previous_hash = last.arg.previous_hash]

\* C7: a block that is_valid accepts is rejected once its previous hash is
\* replaced by a different value.
C7_TamperedPreviousHash ==
    (PreviousHashReplaced /\ Verify(blk, last.vmOk).res) => ~last.verdict

\* The replaced previous hash was caught above height 0, by the hash check.
C7_Witness ==
    /\ PreviousHashReplaced /\ Verify(blk, last.vmOk).res
    /\ blk.header.height > 0
    /\ ~last.verdict

\* C8: bytes whose two-byte little-endian version is not 0 fail with
\* UnsupportedVersion after the version alone was read; the encoder writes
\* version 0, then block_hash, previous_hash, header, transactions.
C8_VersionGate ==
    /\ (last.op = "read_le" /\ Len(last.bytes) >= 2
        /\ (last.bytes[1] # 0 \/ last.bytes[2] # 0)) =>
          (~last.res.ok /\ last.res.err = UnsupportedVersion /\ last.consumed = 2)
    /\ (last.op = "write_le" /\ ~tampered) =>
          /\ wire[1] = 0 /\ wire[2] = 0
          /\ HashReadLe(Slice(wire, 3, 4)) = blk.block_hash
          /\ HashReadLe(Slice(wire, 5, 6)) = blk.previous_hash
          /\ HeaderReadLe(Slice(wire, 7, 8)) = blk.header
          /\ wire[9] = Len(blk.transactions)
          /\ Slice(wire, 10, Len(wire)) = blk.transactions
          /\ ReadLe(wire).res.err # UnsupportedVersion

\* The decoder rejected a version whose high byte alone is not 0.
C8_Witness ==
    /\ last.op = "read_le" /\ Len(last.bytes) > 2
    /\ last.bytes[1] = 0 /\ last.bytes[2] # 0
    /\ last.res.err = UnsupportedVersion

CallOrder == <<"deploy", "on_deploy", "authorize", "execute">>

\* C9: genesis calls deploy, on_deploy, authorize, execute in this order, each
\* at most once; a failed call is the last one and its error is returned with
\* no block; the block is built and checked only after execute succeeded, and
\* a block failing the self-check is not returned.
C9_GenesisOrdering ==
    /\ Len(calls) <= 4
    /\ \A i \in 1..Len(calls) : calls[i].fn = CallOrder[i]
    /\ \A i \in 1..(Len(calls) - 1) : calls[i].ok
    /\ (Len(calls) > 0 /\ ~calls[Len(calls)].ok) =>
          (gpc = "done" /\ gres = Err(calls[Len(calls)].fn, NoBlock))
    /\ gpc = "construct" => AllCallsOk
    /\ (gpc = "done" /\ gres.ok) => (AllCallsOk /\ IsGenesis(gres.val))
    /\ (gpc = "done" /\ AllCallsOk /\ ~gres.ok) =>
          gres.err \in {GenesisInvariantViolation, EmptyTransactionSet,
                        "HeaderRootError", "HashError"}
    /\ (gpc \notin {"idle", "done"}) => gres = Err("", NoBlock)

\* on_deploy failed and genesis returned.
C9_Witness ==
    /\ gpc = "done"
    /\ Len(calls) = 2 /\ ~calls[2].ok
    /\ gres = Err("on_deploy", NoBlock)

StepNames == <<"genesis", "header", "root", "hash", "transactions">>

\* Whether step i of the verifier passes on block c.
StepPasses(c, vmOk, i) ==
    CASE i = 1 -> (c.header.height = 0 => IsGenesis(c))
      [] i = 2 -> c.header.valid
      [] i = 3 -> HeaderToRoot(c.header).ok
      [] i = 4 -> HashConsistent(c)
      [] OTHER -> vmOk

\* The first step that fails, or 5 when none does.
LastStep(c, vmOk) ==
    LET failing == {i \in 1..5 : ~StepPasses(c, vmOk, i)} IN
    IF failing = {} THEN 5 ELSE CHOOSE i \in failing : \A j \in failing : i <= j

\* C10: is_valid evaluates its five checks in order up to the first that
\* fails, answers true exactly when all pass, and rejects a height-0 block
\* whose header is not a genesis header or that has not one transaction.
C10_VerifierSequence ==
    last.op = "verify" =>
        /\ last.verdict = (\A i \in 1..5 : StepPasses(last.arg, last.vmOk, i))
        /\ last.steps = SubSeq(StepNames, 1, LastStep(last.arg, last.vmOk))
        /\ (last.arg.header.height = 0
            /\ (~last.arg.header.genesis \/ Len(last.arg.transactions) # 1)) => ~last.verdict

\* is_valid stopped at a wrong block hash without asking the VM.
C10_Witness ==
    /\ last.op = "verify" /\ ~last.verdict /\ last.vmOk
    /\ last.steps = SubSeq(StepNames, 1, 4)
    /\ HashBhp1024(last.arg.previous_hash, HeaderToRoot(last.arg.header).val).ok
====
